---------------------------- MODULE Spec2Model ----------------------------
(***************************************************************************)
(* A model of the blog application's views (blogicum/blog/views.py), its   *)
(* forms (blogicum/blog/forms.py) and the part of the admin site that      *)
(* edits the flags the views read (blogicum/blog/admin.py).                *)
(*                                                                         *)
(* The database tables Post and Comment are the functions posts and        *)
(* comments, keyed by primary key.  Every request handler is one action;   *)
(* the response of the last request is kept in resp, so that a property    *)
(* of a response is a state predicate.  A step that is not a request (the  *)
(* clock, the admin site) resets resp.                                     *)
(***************************************************************************)
EXTENDS Integers, Sequences, FiniteSets

VARIABLES
    posts,               \* Post table: pk -> [author, is_published, category, pub_date, title]
    comments,            \* Comment table: pk -> [author, post, text]
    category_published,  \* Category table: slug -> is_published
    next_post_pk,        \* next primary key of the Post table (keys are never reused)
    next_comment_pk,     \* next primary key of the Comment table
    now,                 \* the wall clock read by datetime.now()
    resp                 \* the request just served and its response

vars == <<posts, comments, category_published, next_post_pk, next_comment_pk, now, resp>>

db == <<posts, comments, category_published, next_post_pk, next_comment_pk>>

----------------------------------------------------------------------------
(* Bounds of the model *)

MaxPosts == 2          \* posts ever created in a behaviour of Spec

MaxComments == 1       \* comments ever created in a behaviour of Spec

MaxTime == 1           \* the clock runs 0 .. MaxTime; publish dates are drawn from it

MaxListed == 11        \* rows of the Post table in a behaviour of SpecPage

MaxPageNo == 3         \* page numbers requested in SpecPage are 0 .. MaxPageNo

(* Program constant: views.py line 15 *)

POSTS_ON_PAGE_COUNT == 10

----------------------------------------------------------------------------
(* Users, requesters and request inputs *)

Users == {"u1", "u2"}

Anonymous == "anon"

Requesters == Users \cup {Anonymous}

Usernames == Users \cup {"ghost"}     \* "ghost" names no user

Categories == {"c1", "c2"}

Slugs == Categories \cup {"nocat"}    \* "nocat" names no category

Titles == {"t0", "t1"}    \* stands for the content fields title, text, location, image

Texts == {"x0", "x1"}

Methods == {"GET", "POST"}

is_authenticated(user) == user \in Users

Min(a, b) == IF a <= b THEN a ELSE b

----------------------------------------------------------------------------
(* Responses *)

\* route:  the view that served the request
\* user:   the requester (Anonymous when not logged in)
\* pk:     the post or comment key of the URL (0 when the route has none)
\* number: the page number asked of a listing (0 when the route is no listing)
\* name:   the username or category slug of the URL ("" when the route has none)
\* status: "ok" (a page, 200), "not_found" (404), "forbidden" (403),
\*         "login" (redirect to the login page), "to_detail" and "to_profile"
\*         (redirects to the post's detail page and to the requester's profile)
\* items:  the posts shown: the page of a listing, or the post of a detail page
Response(route, method, user, pk, name, status, items) ==
    [route |-> route, method |-> method, user |-> user, pk |-> pk, number |-> 0,
     name |-> name, status |-> status, items |-> items]

ListResponse(route, user, number, name, status, items) ==
    [route |-> route, method |-> "GET", user |-> user, pk |-> 0, number |-> number,
     name |-> name, status |-> status, items |-> items]

NoResp == Response("none", "GET", Anonymous, 0, "", "none", <<>>)

Range(s) == {s[i] : i \in 1..Len(s)}

----------------------------------------------------------------------------
(* Queries *)

\* The three-part visibility test of one row, at time t.
visible_at(p, t) ==
    /\ posts[p].is_published
    /\ category_published[posts[p].category]
    /\ posts[p].pub_date <= t

\* A mutant of get_post_filter: the clock is read once, when the module is
\* loaded (time 0), instead of at each request.
get_post_filter_stale_clock == {p \in DOMAIN posts : visible_at(p, 0)}

\* views.get_post_filter: cur_time = datetime.now(), then the filter
\* is_published=True, category__is_published=True, pub_date__lte=cur_time.
get_post_filter == {p \in DOMAIN posts : visible_at(p, now)}

\* The rows of S with the latest pub_date.
Latest(S) == {p \in S : \A q \in S : posts[q].pub_date <= posts[p].pub_date}

\* The rows of S with the earliest pub_date.
Earliest(S) == {p \in S : \A q \in S : posts[p].pub_date <= posts[q].pub_date}

\* A mutant of order_by_pub_date_desc: order_by('pub_date'), ascending.
RECURSIVE order_by_pub_date_asc(_)
order_by_pub_date_asc(S) ==
    IF S = {} THEN {<<>>}
    ELSE UNION { {<<p>> \o t : t \in order_by_pub_date_asc(S \ {p})} : p \in Earliest(S) }

\* order_by('-pub_date'): every sequence of the rows of S in descending
\* pub_date.  The order of rows with equal pub_date is not fixed by the
\* query, so each arrangement of them is a possible result.
RECURSIVE order_by_pub_date_desc(_)
order_by_pub_date_desc(S) ==
    IF S = {} THEN {<<>>}
    ELSE UNION { {<<p>> \o t : t \in order_by_pub_date_desc(S \ {p})} : p \in Latest(S) }

----------------------------------------------------------------------------
(* Pagination: paginate_by = POSTS_ON_PAGE_COUNT, the framework's Paginator *)

num_pages(count) ==
    IF count = 0 THEN 1
    ELSE (count + POSTS_ON_PAGE_COUNT - 1) \div POSTS_ON_PAGE_COUNT

\* Paginator.page: rows bottom+1 .. top of the ordered list.
page_bounds(number, count) ==
    [bottom |-> (number - 1) * POSTS_ON_PAGE_COUNT,
     top    |-> Min(number * POSTS_ON_PAGE_COUNT, count)]

valid_page(number, count) == 1 <= number /\ number <= num_pages(count)

page(object_list, number) ==
    LET b == page_bounds(number, Len(object_list))
    IN  SubSeq(object_list, b.bottom + 1, b.top)

----------------------------------------------------------------------------
(* Initial state: an empty blog with two categories *)

Init ==
    /\ posts = << >>
    /\ comments = << >>
    /\ category_published = [c \in Categories |-> TRUE]
    /\ next_post_pk = 1
    /\ next_comment_pk = 1
    /\ now = 0
    /\ resp = NoResp

----------------------------------------------------------------------------
(* Listings *)

\* PostListView (index): get_post_filter() ordered by -pub_date, paginated.
PostListView(user, number) ==
    /\ \E object_list \in order_by_pub_date_desc(get_post_filter) :
          resp' = IF valid_page(number, Len(object_list))
                  THEN ListResponse("index", user, number, "", "ok",
                                page(object_list, number))
                  ELSE ListResponse("index", user, number, "", "not_found", <<>>)
    /\ UNCHANGED <<db, now>>

\* ProfileListView: every post of the user named in the URL, ordered and
\* paginated; then the profile is looked up (404 when no such user).
ProfileListView(user, username, number) ==
    /\ \E object_list \in order_by_pub_date_desc(
                              {p \in DOMAIN posts : posts[p].author = username}) :
          resp' = IF valid_page(number, Len(object_list)) /\ username \in Users
                  THEN ListResponse("profile", user, number, username, "ok",
                                page(object_list, number))
                  ELSE ListResponse("profile", user, number, username,
                                "not_found", <<>>)
    /\ UNCHANGED <<db, now>>

\* CategoryListView: get_post_filter() restricted to the slug, ordered and
\* paginated; then the category is looked up with is_published=True.
CategoryListView(user, slug, number) ==
    /\ \E object_list \in order_by_pub_date_desc(
                              {p \in get_post_filter : posts[p].category = slug}) :
          resp' = IF /\ valid_page(number, Len(object_list))
                     /\ slug \in Categories
                     /\ category_published[slug]
                  THEN ListResponse("category", user, number, slug, "ok",
                                page(object_list, number))
                  ELSE ListResponse("category", user, number, slug,
                                "not_found", <<>>)
    /\ UNCHANGED <<db, now>>

----------------------------------------------------------------------------
(* Post detail *)

\* A mutant of detail_allowed: the author is filtered like everyone else.
detail_allowed_no_owner_bypass(user, pk) == visible_at(pk, now)

\* PostDetailView.dispatch, for an existing post: the author passes; anyone
\* else passes when the second get_object_or_404, with is_published=True,
\* category__is_published=True and pub_date__lte=datetime.now(), finds the row.
detail_allowed(user, pk) ==
    \/ posts[pk].author = user
    \/ visible_at(pk, now)

PostDetailView(user, pk) ==
    /\ resp' = IF pk \notin DOMAIN posts
               THEN Response("post_detail", "GET", user, pk, "", "not_found", <<>>)
               ELSE IF detail_allowed(user, pk)
               THEN Response("post_detail", "GET", user, pk, "", "ok", <<pk>>)
               ELSE Response("post_detail", "GET", user, pk, "", "not_found", <<>>)
    /\ UNCHANGED <<db, now>>

----------------------------------------------------------------------------
(* Forms *)

\* What a post form submission carries.  author and is_published are not
\* fields of PostCreateForm (Meta.exclude), and pub_date, author and
\* is_published are not fields of the update form (PostUpdateView.fields):
\* a submission may carry them all the same.
PostForms ==
    [title : Titles, category : Categories, pub_date : 0..MaxTime,
     author : Users, is_published : BOOLEAN, valid : {TRUE}]

\* One submission that fails validation (a required field is missing).
InvalidPostForm ==
    [title |-> "t0", category |-> "c1", pub_date |-> 0,
     author |-> "u1", is_published |-> TRUE, valid |-> FALSE]

CommentForms == [text : Texts, valid : {TRUE}]

InvalidCommentForm == [text |-> "x0", valid |-> FALSE]

\* Post.is_published when the form does not set it: the field's default.
is_published_default == TRUE

----------------------------------------------------------------------------
(* Post create, update, delete *)

\* A mutant of created_post: the author is taken from the submission.
created_post_author_from_form(user, form) ==
    [author |-> form.author, is_published |-> is_published_default,
     category |-> form.category, pub_date |-> form.pub_date, title |-> form.title]

\* PostCreateForm bound to the submission (author and is_published excluded),
\* then PostCreateView.form_valid: form.instance.author = request.user.
created_post(user, form) ==
    [author |-> user, is_published |-> is_published_default,
     category |-> form.category, pub_date |-> form.pub_date, title |-> form.title]

\* PostCreateView: LoginRequiredMixin, then CreateView.
PostCreateView(user, method, form) ==
    IF ~is_authenticated(user)
    THEN /\ resp' = Response("post_create", method, user, 0, "", "login", <<>>)
         /\ UNCHANGED <<db, now>>
    ELSE IF method = "GET" \/ ~form.valid
    THEN /\ resp' = Response("post_create", method, user, 0, "", "ok", <<>>)
         /\ UNCHANGED <<db, now>>
    ELSE /\ next_post_pk <= MaxPosts
         /\ posts' = [p \in DOMAIN posts \cup {next_post_pk} |->
                         IF p = next_post_pk THEN created_post(user, form)
                         ELSE posts[p]]
         /\ next_post_pk' = next_post_pk + 1
         /\ resp' = Response("post_create", method, user, 0, "", "to_profile", <<>>)
         /\ UNCHANGED <<comments, category_published, next_comment_pk, now>>

\* A mutant of may_update_post: any authenticated user may edit.
may_update_post_any_user(user, pk) == is_authenticated(user)

\* PostUpdateView.dispatch, for an existing post: the negation of
\* (not request.user.is_authenticated or instance.author != request.user).
may_update_post(user, pk) ==
    is_authenticated(user) /\ posts[pk].author = user

\* A mutant of updated_post: pub_date is a field of the update form too.
updated_post_with_pub_date(post, form) ==
    [post EXCEPT !.title = form.title, !.category = form.category,
                 !.pub_date = form.pub_date]

\* The update form saves fields = (title, text, location, category, image).
updated_post(post, form) ==
    [post EXCEPT !.title = form.title, !.category = form.category]

\* PostUpdateView: dispatch (404, or redirect to the detail view), then
\* LoginRequiredMixin and UpdateView.
PostUpdateView(user, pk, method, form) ==
    IF pk \notin DOMAIN posts
    THEN /\ resp' = Response("post_edit", method, user, pk, "", "not_found", <<>>)
         /\ UNCHANGED <<db, now>>
    ELSE IF ~may_update_post(user, pk)
    THEN /\ resp' = Response("post_edit", method, user, pk, "", "to_detail", <<>>)
         /\ UNCHANGED <<db, now>>
    ELSE IF method = "GET" \/ ~form.valid
    THEN /\ resp' = Response("post_edit", method, user, pk, "", "ok", <<pk>>)
         /\ UNCHANGED <<db, now>>
    ELSE /\ posts' = [posts EXCEPT ![pk] = updated_post(posts[pk], form)]
         /\ resp' = Response("post_edit", method, user, pk, "", "to_detail", <<>>)
         /\ UNCHANGED <<comments, category_published, next_post_pk,
                        next_comment_pk, now>>

\* A mutant of may_delete_post: LoginRequiredMixin alone guards the view.
may_delete_post_any_user(user, pk) == is_authenticated(user)

\* PostDeleteView.dispatch, for an existing post: PermissionDenied is raised
\* when instance.author != request.user.
may_delete_post(user, pk) == posts[pk].author = user

\* PostDeleteView: dispatch (404, or PermissionDenied), then
\* LoginRequiredMixin and DeleteView.  Deleting a post deletes its comments
\* (the foreign key Comment.post cascades).
PostDeleteView(user, pk, method) ==
    IF pk \notin DOMAIN posts
    THEN /\ resp' = Response("post_delete", method, user, pk, "", "not_found", <<>>)
         /\ UNCHANGED <<db, now>>
    ELSE IF ~may_delete_post(user, pk)
    THEN /\ resp' = Response("post_delete", method, user, pk, "", "forbidden", <<>>)
         /\ UNCHANGED <<db, now>>
    ELSE IF method = "GET"
    THEN /\ resp' = Response("post_delete", method, user, pk, "", "ok", <<pk>>)
         /\ UNCHANGED <<db, now>>
    ELSE /\ posts' = [p \in DOMAIN posts \ {pk} |-> posts[p]]
         /\ comments' = [c \in {d \in DOMAIN comments : comments[d].post # pk} |->
                            comments[c]]
         /\ resp' = Response("post_delete", method, user, pk, "", "to_profile", <<>>)
         /\ UNCHANGED <<category_published, next_post_pk, next_comment_pk, now>>

----------------------------------------------------------------------------
(* Comment create, update, delete *)

\* CommentCreateView: LoginRequiredMixin, then CreateView; form_valid sets
\* the author and looks the post up by pk alone.
CommentCreateView(user, pk, method, form) ==
    IF ~is_authenticated(user)
    THEN /\ resp' = Response("comment_create", method, user, pk, "", "login", <<>>)
         /\ UNCHANGED <<db, now>>
    ELSE IF method = "GET" \/ ~form.valid
    THEN /\ resp' = Response("comment_create", method, user, pk, "", "ok", <<>>)
         /\ UNCHANGED <<db, now>>
    ELSE IF pk \notin DOMAIN posts
    THEN /\ resp' = Response("comment_create", method, user, pk, "", "not_found", <<>>)
         /\ UNCHANGED <<db, now>>
    ELSE /\ next_comment_pk <= MaxComments
         /\ comments' = [c \in DOMAIN comments \cup {next_comment_pk} |->
                            IF c = next_comment_pk
                            THEN [author |-> user, post |-> pk, text |-> form.text]
                            ELSE comments[c]]
         /\ next_comment_pk' = next_comment_pk + 1
         /\ resp' = Response("comment_create", method, user, pk, "", "to_detail", <<>>)
         /\ UNCHANGED <<posts, category_published, next_post_pk, now>>

\* A mutant of comment_lookup: the lookup is by key alone.
comment_lookup_by_pk_only(user, comment_pk) == comment_pk \in DOMAIN comments

\* get_object of CommentUpdateView and CommentDeleteView:
\* get_object_or_404(Comment, pk=comment_pk, author=request.user) finds a row.
comment_lookup(user, comment_pk) ==
    comment_pk \in DOMAIN comments /\ comments[comment_pk].author = user

\* CommentUpdateView: LoginRequiredMixin, then UpdateView with fields = (text).
CommentUpdateView(user, comment_pk, method, form) ==
    IF ~is_authenticated(user)
    THEN /\ resp' = Response("comment_edit", method, user, comment_pk, "", "login", <<>>)
         /\ UNCHANGED <<db, now>>
    ELSE IF ~comment_lookup(user, comment_pk)
    THEN /\ resp' = Response("comment_edit", method, user, comment_pk, "",
                             "not_found", <<>>)
         /\ UNCHANGED <<db, now>>
    ELSE IF method = "GET" \/ ~form.valid
    THEN /\ resp' = Response("comment_edit", method, user, comment_pk, "", "ok", <<>>)
         /\ UNCHANGED <<db, now>>
    ELSE /\ comments' = [comments EXCEPT ![comment_pk].text = form.text]
         /\ resp' = Response("comment_edit", method, user, comment_pk, "",
                             "to_detail", <<>>)
         /\ UNCHANGED <<posts, category_published, next_post_pk, next_comment_pk, now>>

\* CommentDeleteView: LoginRequiredMixin, then DeleteView.
CommentDeleteView(user, comment_pk, method) ==
    IF ~is_authenticated(user)
    THEN /\ resp' = Response("comment_delete", method, user, comment_pk, "",
                             "login", <<>>)
         /\ UNCHANGED <<db, now>>
    ELSE IF ~comment_lookup(user, comment_pk)
    THEN /\ resp' = Response("comment_delete", method, user, comment_pk, "",
                             "not_found", <<>>)
         /\ UNCHANGED <<db, now>>
    ELSE IF method = "GET"
    THEN /\ resp' = Response("comment_delete", method, user, comment_pk, "", "ok", <<>>)
         /\ UNCHANGED <<db, now>>
    ELSE /\ comments' = [c \in DOMAIN comments \ {comment_pk} |-> comments[c]]
         /\ resp' = Response("comment_delete", method, user, comment_pk, "",
                             "to_detail", <<>>)
         /\ UNCHANGED <<posts, category_published, next_post_pk, next_comment_pk, now>>

----------------------------------------------------------------------------
(* The clock and the admin site *)

Tick ==
    /\ now < MaxTime
    /\ now' = now + 1
    /\ resp' = NoResp
    /\ UNCHANGED db

\* PostAdmin: is_published is editable in the change list.
AdminSetPostPublished(pk, flag) ==
    /\ pk \in DOMAIN posts
    /\ posts[pk].is_published # flag
    /\ posts' = [posts EXCEPT ![pk].is_published = flag]
    /\ resp' = NoResp
    /\ UNCHANGED <<comments, category_published, next_post_pk, next_comment_pk, now>>

\* CategoryAdmin: the change form of a category edits its is_published.
AdminSetCategoryPublished(slug, flag) ==
    /\ category_published[slug] # flag
    /\ category_published' = [category_published EXCEPT ![slug] = flag]
    /\ resp' = NoResp
    /\ UNCHANGED <<posts, comments, next_post_pk, next_comment_pk, now>>

----------------------------------------------------------------------------
(* Request inputs shared by the specifications *)

PostKeys == 1..MaxPosts          \* a key not yet given out, or deleted, names no post

CommentKeys == 1..MaxComments

\* Submissions of u1 that differ in the fields a listing or a detail page
\* reads; the author and is_published they carry are not u1's and not the
\* default.
PlainPostForms ==
    {f \in PostForms : f.title = "t0" /\ f.author = "u2" /\ ~f.is_published}

Admin ==
    \/ \E pk \in PostKeys, flag \in BOOLEAN : AdminSetPostPublished(pk, flag)
    \/ \E slug \in Categories, flag \in BOOLEAN : AdminSetCategoryPublished(slug, flag)

----------------------------------------------------------------------------
(* SpecView: reading the blog.  u1 writes posts, the admin site flips the  *)
(* flags, the clock advances, and every requester reads the listings and   *)
(* the detail pages.  By the symmetry of the users one author is enough:   *)
(* u2 and the anonymous requester are the readers who are not the author.  *)

ViewRequests ==
    \/ \E user \in Requesters : PostListView(user, 1)
    \/ \E user \in Requesters, username \in Usernames :
           ProfileListView(user, username, 1)
    \/ \E user \in Requesters, slug \in Slugs : CategoryListView(user, slug, 1)
    \/ \E user \in Requesters, pk \in PostKeys : PostDetailView(user, pk)
    \/ \E form \in PlainPostForms : PostCreateView("u1", "POST", form)

NextView == ViewRequests \/ Admin \/ Tick

SpecView == Init /\ [][NextView]_vars

----------------------------------------------------------------------------
(* SpecCreate: writing posts.  Every requester submits every form.         *)

NextCreate ==
    \E user \in Requesters :
        \/ PostCreateView(user, "GET", InvalidPostForm)
        \/ \E form \in PostForms \cup {InvalidPostForm} :
               PostCreateView(user, "POST", form)

SpecCreate == Init /\ [][NextCreate]_vars

----------------------------------------------------------------------------
(* SpecPost: editing and deleting posts.  u1 writes posts, every requester *)
(* asks to edit and to delete them, and the clock advances.  Category c2   *)
(* is hidden from the start, so that an edit can move a post into and out  *)
(* of a hidden category.                                                   *)

InitPost ==
    /\ posts = << >>
    /\ comments = << >>
    /\ category_published = [c \in Categories |-> c = "c1"]
    /\ next_post_pk = 1
    /\ next_comment_pk = 1
    /\ now = 0
    /\ resp = NoResp

\* Edit submissions: every title and category, with the earliest or the
\* latest pub_date and with an author and an is_published that are not the
\* post's.
EditForms ==
    {f \in PostForms :
        f.author = "u2" /\ ~f.is_published /\ f.pub_date \in {0, MaxTime}}

PostRequests ==
    \/ \E form \in PlainPostForms : PostCreateView("u1", "POST", form)
    \/ \E user \in Requesters, pk \in PostKeys :
           \/ PostUpdateView(user, pk, "GET", InvalidPostForm)
           \/ \E form \in EditForms \cup {InvalidPostForm} :
                  PostUpdateView(user, pk, "POST", form)
    \/ \E user \in Requesters, pk \in PostKeys, method \in Methods :
           PostDeleteView(user, pk, method)

NextPost == PostRequests \/ Tick

SpecPost == InitPost /\ [][NextPost]_vars

----------------------------------------------------------------------------
(* SpecComment: comments.  u1 writes posts, every requester comments,      *)
(* edits and deletes comments and asks to delete posts.                    *)

OnePostForm ==
    [title |-> "t0", category |-> "c1", pub_date |-> 0,
     author |-> "u2", is_published |-> FALSE, valid |-> TRUE]

NextComment ==
    \/ PostCreateView("u1", "POST", OnePostForm)
    \/ \E user \in Requesters, pk \in PostKeys :
           \/ CommentCreateView(user, pk, "GET", InvalidCommentForm)
           \/ \E form \in CommentForms \cup {InvalidCommentForm} :
                  CommentCreateView(user, pk, "POST", form)
    \/ \E user \in Requesters, comment_pk \in CommentKeys :
           \/ CommentUpdateView(user, comment_pk, "GET", InvalidCommentForm)
           \/ \E form \in CommentForms \cup {InvalidCommentForm} :
                  CommentUpdateView(user, comment_pk, "POST", form)
    \/ \E user \in Requesters, comment_pk \in CommentKeys, method \in Methods :
           CommentDeleteView(user, comment_pk, method)
    \/ \E user \in Requesters, pk \in PostKeys, method \in Methods :
           PostDeleteView(user, pk, method)

SpecComment == Init /\ [][NextComment]_vars

----------------------------------------------------------------------------
(* SpecConceal: the four routes that take a post key, asked for posts that *)
(* are hidden and for keys that name no post.                              *)

NextConceal ==
    \/ \E form \in PlainPostForms : PostCreateView("u1", "POST", form)
    \/ \E user \in Requesters, pk \in PostKeys : PostDetailView(user, pk)
    \/ \E user \in Requesters, pk \in PostKeys, method \in Methods :
           PostUpdateView(user, pk, method, InvalidPostForm)
    \/ \E user \in Requesters, pk \in PostKeys, method \in Methods :
           PostDeleteView(user, pk, method)
    \/ \E user \in Requesters, pk \in PostKeys :
           \/ CommentCreateView(user, pk, "GET", InvalidCommentForm)
           \/ \E form \in CommentForms \cup {InvalidCommentForm} :
                  CommentCreateView(user, pk, "POST", form)
    \/ Tick

SpecConceal == InitPost /\ [][NextConceal]_vars

----------------------------------------------------------------------------
(* SpecPage: listings longer than a page.  The Post table holds up to      *)
(* MaxListed posts of u1 in category c1, with publish dates 1, 2, 3, ...;  *)
(* one of them may share the publish date of the post before it, and one   *)
(* may be unpublished.  All publish dates are in the past.  Requesters ask *)
(* for pages 0 .. MaxPageNo of the three listings.                         *)

PagePost(pk, tied, hidden) ==
    [author |-> "u1", is_published |-> pk # hidden, category |-> "c1",
     pub_date |-> IF pk = tied THEN pk - 1 ELSE pk, title |-> "t0"]

InitPage ==
    \E n \in 0..MaxListed :
        \E tied \in {0} \cup 2..n, hidden \in 0..n :
            /\ posts = [pk \in 1..n |-> PagePost(pk, tied, hidden)]
            /\ comments = << >>
            /\ category_published = [c \in Categories |-> TRUE]
            /\ next_post_pk = n + 1
            /\ next_comment_pk = 1
            /\ now = MaxListed
            /\ resp = NoResp

NextPage ==
    \E user \in {"u2", Anonymous}, number \in 0..MaxPageNo :
        \/ PostListView(user, number)
        \/ ProfileListView(user, "u1", number)
        \/ CategoryListView(user, "c1", number)

SpecPage == InitPage /\ [][NextPage]_vars

----------------------------------------------------------------------------
(* Properties of the listings and of the detail page (SpecView) *)

\* A post is public when it is published, its category is published and its
\* publish date has been reached.
IsPublic(p) ==
    /\ posts[p].is_published = TRUE
    /\ category_published[posts[p].category] = TRUE
    /\ posts[p].pub_date <= now

IsListing == resp.route \in {"index", "profile", "category"} /\ resp.status = "ok"

\* C1: every post of an index, profile or category listing served to a
\* requester who is not the post's author is published, has a published
\* category and a publish date that is not in the future.
C1_ListingsShowOnlyPublicPosts ==
    IsListing =>
        \A p \in Range(resp.items) :
            posts[p].author # resp.user => IsPublic(p)

\* C2: a published post of a published category is in the index listing and
\* in the listing of its category exactly when the clock, read when the
\* request is served, has reached its pub_date.
C2_PublishDateGate ==
    \A p \in DOMAIN posts :
        (posts[p].is_published /\ category_published[posts[p].category]) =>
            /\ resp.route = "index" =>
                  /\ resp.status = "ok"
                  /\ p \in Range(resp.items) <=> posts[p].pub_date <= now
            /\ (resp.route = "category" /\ resp.name = posts[p].category) =>
                  /\ resp.status = "ok"
                  /\ p \in Range(resp.items) <=> posts[p].pub_date <= now

\* C2 happens: the clock has advanced since the blog started, and the
\* listing of a category shows a post whose publish date is the present
\* instant.
C2_Witness ==
    /\ now >= 1
    /\ resp.route = "category"
    /\ \E p \in Range(resp.items) : posts[p].pub_date = now

\* C3: the detail page of an existing post is served to its author whatever
\* the post's flags and date are; to anyone else it is served exactly when
\* the post is public, and is not-found otherwise; a key that names no post
\* is not-found for every requester.
C3_DetailAccess ==
    resp.route = "post_detail" =>
        IF resp.pk \notin DOMAIN posts
        THEN resp.status = "not_found"
        ELSE IF posts[resp.pk].author = resp.user
        THEN resp.status = "ok" /\ resp.items = <<resp.pk>>
        ELSE /\ resp.status \in {"ok", "not_found"}
             /\ resp.status = "ok" <=> IsPublic(resp.pk)
             /\ resp.status = "ok" => resp.items = <<resp.pk>>

\* C3 happens: the author has been served the detail page of a post of
\* theirs that is not public.
C3_Witness ==
    /\ resp.route = "post_detail"
    /\ resp.pk \in DOMAIN posts
    /\ posts[resp.pk].author = resp.user
    /\ ~IsPublic(resp.pk)
    /\ resp.status = "ok"

----------------------------------------------------------------------------
(* Properties of pagination (SpecPage) *)

\* The posts of the listing that resp answers: the public posts (index),
\* those of them in the category named (category), the posts of the user
\* named (profile).
ListingPosts ==
    IF resp.route = "index" THEN {p \in DOMAIN posts : IsPublic(p)}
    ELSE IF resp.route = "category"
    THEN {p \in DOMAIN posts : IsPublic(p) /\ posts[p].category = resp.name}
    ELSE {p \in DOMAIN posts : posts[p].author = resp.name}

\* The sequences of the posts of S, each post once, in descending pub_date.
DescendingOrders(S) ==
    {s \in order_by_pub_date_desc(S) :
        /\ Len(s) = Cardinality(S)
        /\ Range(s) = S
        /\ \A i \in 1..(Len(s) - 1) : posts[s[i]].pub_date >= posts[s[i + 1]].pub_date}

\* Page k of the order s, with pages of 10.
TenPerPage(s, k) ==
    [i \in 1..(Min(10 * k, Len(s)) - 10 * (k - 1)) |-> s[10 * (k - 1) + i]]

\* The number of pages of n posts, an empty listing having one empty page.
PagesOf(n) == IF n = 0 THEN 1 ELSE (n + 9) \div 10

----------------------------------------------------------------------------
(* Properties of post creation (SpecCreate) *)

\* C6: a successful create request adds exactly one post, whose author is
\* the requester whatever the submission carries; any other create request,
\* and every create request of an unauthenticated requester, adds no post.
C6_CreateSetsAuthor ==
    [][resp'.route = "post_create" =>
          /\ resp'.user \notin Users => resp'.status = "login"
          /\ resp'.status # "to_profile" => posts' = posts
          /\ resp'.status = "to_profile" =>
                /\ resp'.user \in Users
                /\ Cardinality(DOMAIN posts' \ DOMAIN posts) = 1
                /\ \A pk \in DOMAIN posts' \ DOMAIN posts :
                       posts'[pk].author = resp'.user
                /\ \A pk \in DOMAIN posts :
                       pk \in DOMAIN posts' /\ posts'[pk] = posts[pk]]_vars

\* C6 happens: u2 has created a post and is its author (submissions carry
\* u1 and u2 as author).
C6_Witness ==
    /\ resp.route = "post_create"
    /\ resp.status = "to_profile"
    /\ resp.user = "u2"
    /\ (next_post_pk - 1) \in DOMAIN posts
    /\ posts[next_post_pk - 1].author = "u2"

----------------------------------------------------------------------------
(* Properties of post editing and deleting (SpecPost, SpecComment) *)

\* C7: an edit request, GET or POST, for an existing post by anyone but its
\* author (the anonymous requester included) is answered with a redirect to
\* the post's detail view and changes nothing; a post's fields change only
\* in an edit request of its author.
C7_EditAuthorization ==
    [][/\ (/\ resp'.route = "post_edit"
           /\ resp'.pk \in DOMAIN posts
           /\ posts[resp'.pk].author # resp'.user) =>
                /\ resp'.status = "to_detail"
                /\ posts' = posts
                /\ comments' = comments
       /\ \A p \in DOMAIN posts \cap DOMAIN posts' :
              posts'[p] # posts[p] =>
                  /\ resp'.route = "post_edit"
                  /\ resp'.pk = p
                  /\ resp'.user = posts[p].author]_vars

\* C7 happens: the anonymous requester has submitted an edit of an existing
\* post and has been redirected to its detail view.
C7_Witness ==
    /\ resp.route = "post_edit"
    /\ resp.method = "POST"
    /\ resp.user = Anonymous
    /\ resp.pk \in DOMAIN posts
    /\ resp.status = "to_detail"

\* C10: no create, edit or delete request changes the author, is_published
\* or pub_date of an existing post; whether a post is public changes only
\* when the clock reaches its pub_date or when its author, in an edit,
\* gives it a category with the other published flag.
C10_EditFrame ==
    [][\A p \in DOMAIN posts \cap DOMAIN posts' :
          /\ posts'[p].author = posts[p].author
          /\ posts'[p].is_published = posts[p].is_published
          /\ posts'[p].pub_date = posts[p].pub_date
          /\ IsPublic(p)' # IsPublic(p) =>
                \/ /\ posts[p].pub_date > now
                   /\ posts[p].pub_date <= now'
                \/ /\ resp'.route = "post_edit"
                   /\ resp'.pk = p
                   /\ resp'.user = posts[p].author
                   /\ category_published[posts'[p].category]
                          # category_published[posts[p].category]]_vars

\* C10 happens: the author's edit has been saved; it gave the post another
\* title and moved it to the hidden category.
C10_Witness ==
    /\ resp.route = "post_edit"
    /\ resp.method = "POST"
    /\ resp.status = "to_detail"
    /\ resp.pk \in DOMAIN posts
    /\ resp.user = posts[resp.pk].author
    /\ posts[resp.pk].title = "t1"
    /\ posts[resp.pk].category = "c2"

\* C8: a delete request for an existing post by anyone but its author, the
\* anonymous requester included, is answered with forbidden and removes
\* neither the post nor a comment; a post is removed only by a delete
\* request of its author.
C8_DeleteAuthorization ==
    [][/\ (/\ resp'.route = "post_delete"
           /\ resp'.pk \in DOMAIN posts
           /\ posts[resp'.pk].author # resp'.user) =>
                /\ resp'.status = "forbidden"
                /\ posts' = posts
                /\ comments' = comments
       /\ \A p \in DOMAIN posts \ DOMAIN posts' :
              /\ resp'.route = "post_delete"
              /\ resp'.pk = p
              /\ resp'.user = posts[p].author]_vars

\* C8 happens: the anonymous requester has asked to delete a post that has
\* a comment, and the answer is forbidden.
C8_Witness ==
    /\ resp.route = "post_delete"
    /\ resp.method = "POST"
    /\ resp.user = Anonymous
    /\ resp.status = "forbidden"
    /\ resp.pk \in DOMAIN posts
    /\ \E c \in DOMAIN comments : comments[c].post = resp.pk

----------------------------------------------------------------------------
(* Properties of comments (SpecComment) *)

\* C5: an update or delete request for a comment by an authenticated user
\* who is not its author is answered not-found and leaves the comments as
\* they are; a comment changes only in its text and only in an update
\* request of its author, and it is removed only by a delete request of its
\* author or together with its post.
C5_CommentOwnership ==
    [][/\ (/\ resp'.route \in {"comment_edit", "comment_delete"}
           /\ resp'.user \in Users
           /\ resp'.pk \in DOMAIN comments
           /\ comments[resp'.pk].author # resp'.user) =>
                /\ resp'.status = "not_found"
                /\ comments' = comments
       /\ \A c \in DOMAIN comments :
              /\ (c \in DOMAIN comments' /\ comments'[c] # comments[c]) =>
                     /\ resp'.route = "comment_edit"
                     /\ resp'.pk = c
                     /\ resp'.user = comments[c].author
                     /\ comments'[c].author = comments[c].author
                     /\ comments'[c].post = comments[c].post
              /\ c \notin DOMAIN comments' =>
                     \/ /\ resp'.route = "comment_delete"
                        /\ resp'.pk = c
                        /\ resp'.user = comments[c].author
                     \/ /\ resp'.route = "post_delete"
                        /\ resp'.pk = comments[c].post]_vars

\* C5 happens: an authenticated user has submitted an update of a comment
\* of someone else and the answer is not-found.
C5_Witness ==
    /\ resp.route = "comment_edit"
    /\ resp.method = "POST"
    /\ resp.user \in Users
    /\ resp.pk \in DOMAIN comments
    /\ comments[resp.pk].author # resp.user
    /\ resp.status = "not_found"

----------------------------------------------------------------------------
(* Concealment of hidden posts (SpecConceal) *)

\* What a route answers when the key names no post.
AbsentStatuses(route, method, user) ==
    IF route \in {"post_detail", "post_edit", "post_delete"} THEN {"not_found"}
    ELSE IF user \notin Users THEN {"login"}
    ELSE IF method = "GET" THEN {"ok"}
    ELSE {"ok", "not_found"}        \* an invalid form, a valid form

\* C4: on every route that takes a post key, a requester who is not the
\* author gets for the key of a hidden post the answer the route gives for
\* a key that names no post.
C4_HiddenPostConcealed ==
    (/\ resp.route \in {"post_detail", "post_edit", "post_delete", "comment_create"}
     /\ resp.pk \in DOMAIN posts
     /\ posts[resp.pk].author # resp.user
     /\ ~IsPublic(resp.pk)) =>
        resp.status \in AbsentStatuses(resp.route, resp.method, resp.user)

====
